---- MODULE Spec2Model ----
(***************************************************************************)
(* A model of isahc's Body (src/src/body.rs): the four representations of  *)
(* Inner, the constructors and conversions, len / is_empty / reset / text, *)
(* the asynchronous read (poll_read) and the blocking read built on it.    *)
(*                                                                         *)
(* The wrapped AsyncRead source of Inner::AsyncRead is the environment: it *)
(* is a script of poll outcomes fixed at construction.  Blocking calls     *)
(* (read, text) are in progress over several steps, one poll per step.     *)
(***************************************************************************)
EXTENDS Integers, Sequences, FiniteSets, TLC

(* ------------------------------ bounds -------------------------------- *)

\* longest content of an in-memory body, in bytes
MaxLen == 2
\* largest buffer handed to a read
MaxBuf == 2
\* most events in the script of a wrapped source
MaxScript == 2
\* most completed text() and reset() calls kept in the call log
MaxLog == 4

(* ------------------------------- values ------------------------------- *)

\* byte values in use: 'A', and the two bytes of the UTF-8 encoding of U+00E9
ByteVals == {65, 195, 169}
\* the characters whose encodings are made of ByteVals: 'A' and U+00E9
CharVals == {65, 233}

SeqsUpTo(S, n) == UNION {[1..k -> S] : k \in 0..n}

Min(a, b) == IF a <= b THEN a ELSE b

IsPrefix(s, t) == Len(s) <= Len(t) /\ SubSeq(t, 1, Len(s)) = s

\* Option<T>
None == [t |-> "None"]
Some(x) == [t |-> "Some", v |-> x]

\* bool
Bool(x) == [t |-> "Bool", v |-> x]

\* Poll<io::Result<usize>>; bytes are the bytes written to the buffer (n = Len)
Pending == [t |-> "Pending"]
ReadyOk(bs) == [t |-> "Ready", bytes |-> bs]
ReadyErr(k) == [t |-> "Err", kind |-> k]
\* the value of a match on Inner that has no arm for the active variant
NoArm == [t |-> "NoArm"]

\* Result<String, io::Error>
TextOk(s) == [t |-> "Ok", s |-> s]
TextErr(k) == [t |-> "Err", kind |-> k]

\* io::ErrorKind values a source reports
ErrKinds == {"Other", "Interrupted", "InvalidData"}

(* ------------------------------- UTF-8 -------------------------------- *)

\* String::into_bytes / str::as_bytes: the UTF-8 encoding of a string
\* (code points below 0x800, which covers CharVals)
RECURSIVE Utf8Encode(_)
Utf8Encode(s) ==
  IF s = <<>> THEN <<>>
  ELSE LET c == Head(s) IN
       (IF c < 128 THEN <<c>> ELSE <<192 + (c \div 64), 128 + (c % 64)>>)
         \o Utf8Encode(Tail(s))

\* str::from_utf8 on one- and two-byte sequences (lead bytes below 0xE0)
RECURSIVE Utf8Decode(_)
Utf8Decode(bs) ==
  IF bs = <<>> THEN [ok |-> TRUE, s |-> <<>>]
  ELSE LET b1 == Head(bs) IN
    IF b1 < 128
    THEN LET r == Utf8Decode(Tail(bs)) IN
         IF r.ok THEN [ok |-> TRUE, s |-> <<b1>> \o r.s] ELSE r
    ELSE IF b1 >= 194 /\ b1 <= 223 /\ Len(bs) >= 2
            /\ bs[2] >= 128 /\ bs[2] <= 191
    THEN LET r == Utf8Decode(Tail(Tail(bs))) IN
         IF r.ok
         THEN [ok |-> TRUE, s |-> <<(b1 - 192) * 64 + (bs[2] - 128)>> \o r.s]
         ELSE r
    ELSE [ok |-> FALSE, s |-> <<>>]

(* ------------------------- the wrapped source ------------------------- *)

\* one poll outcome of a wrapped source: not ready, a chunk of bytes, end of
\* data, or a failure
SrcChunks == {<<195, 169>>, <<169>>}
SrcEvents ==
  {[e |-> "Pending"], [e |-> "Eof"]}
    \cup {[e |-> "Chunk", bytes |-> c] : c \in SrcChunks}
    \cup {[e |-> "Err", kind |-> k] : k \in ErrKinds}

Scripts == SeqsUpTo(SrcEvents, MaxScript)

\* a source that never finishes: after its events it answers every poll the
\* same way, Pending or a failure of kind Interrupted; phase is the parity of
\* the polls it has answered so
Forever(what) == [e |-> "Forever", what |-> what, phase |-> 0]
LiveScripts ==
  Scripts \cup
    {s \o <<Forever(w)>> :
       s \in SeqsUpTo(SrcEvents, MaxScript - 1),
       w \in {"Pending", "Interrupted"}}

\* AsyncRead::poll_read of the wrapped source with a buffer of n bytes.  A
\* chunk larger than the buffer is delivered in parts; a source whose script
\* is over reports end of data.
SourcePoll(src, n) ==
  IF src = <<>> THEN [src |-> src, ret |-> ReadyOk(<<>>)]
  ELSE LET h == Head(src) IN
    CASE h.e = "Pending" -> [src |-> Tail(src), ret |-> Pending]
      [] h.e = "Eof" -> [src |-> Tail(src), ret |-> ReadyOk(<<>>)]
      [] h.e = "Err" -> [src |-> Tail(src), ret |-> ReadyErr(h.kind)]
      [] h.e = "Forever" ->
           [src |-> <<[h EXCEPT !.phase = 1 - h.phase]>> \o Tail(src),
            ret |-> IF h.what = "Pending" THEN Pending
                    ELSE ReadyErr(h.what)]
      [] h.e = "Chunk" ->
           LET k == Min(n, Len(h.bytes)) IN
           IF k = Len(h.bytes)
           THEN [src |-> Tail(src), ret |-> ReadyOk(h.bytes)]
           ELSE [src |-> <<[e |-> "Chunk",
                            bytes |-> SubSeq(h.bytes, k + 1, Len(h.bytes))]>>
                          \o Tail(src),
                 ret |-> ReadyOk(SubSeq(h.bytes, 1, k))]

(* ------------------------------ Body ---------------------------------- *)

\* Inner: the tag, the cursor (data, pos) of Borrowed and Bytes, and the
\* source and declared length of AsyncRead
Inner(tag, data, pos, len, src) ==
  [tag |-> tag, data |-> data, pos |-> pos, len |-> len, src |-> src]

empty == Inner("Empty", <<>>, 0, None, <<>>)
bytes(b) == Inner("Bytes", b, 0, None, <<>>)
reader(read) == Inner("AsyncRead", <<>>, 0, None, read)
reader_sized(read, length) == Inner("AsyncRead", <<>>, 0, Some(length), read)

default == empty
from_unit == empty
from_vec(b) == bytes(b)
from_slice(b) == Inner("Borrowed", b, 0, None, <<>>)
from_bytes(b) == bytes(b)
from_string(s) == from_vec(Utf8Encode(s))
from_str(s) == from_slice(Utf8Encode(s))
from_option(o) == IF o.t = "Some" THEN o.v ELSE default

\* len as a count of what is left to read: 0 once the source is used up
len_remaining(b) ==
  CASE b.tag = "Empty" -> Some(0)
    [] b.tag = "Bytes" -> Some(Len(b.data))
    [] b.tag = "AsyncRead" -> IF b.src = <<>> THEN Some(0) ELSE b.len
    [] OTHER -> NoArm

\* Body::len; the match has arms for Empty, Bytes and AsyncRead only
len(b) ==
  CASE b.tag = "Empty" -> Some(0)
    [] b.tag = "Bytes" -> Some(Len(b.data))
    [] b.tag = "AsyncRead" -> b.len
    [] OTHER -> NoArm

is_empty(b) == len(b) = Some(0)

\* reset that answers true without repositioning the cursor
reset_keep_pos(b) ==
  CASE b.tag = "Empty" -> [body |-> b, ret |-> Bool(TRUE)]
    [] b.tag = "Bytes" -> [body |-> b, ret |-> Bool(TRUE)]
    [] b.tag = "AsyncRead" -> [body |-> b, ret |-> Bool(FALSE)]
    [] OTHER -> [body |-> b, ret |-> NoArm]

\* reset that answers true for a source that is used up
reset_drained_source(b) ==
  CASE b.tag = "Empty" -> [body |-> b, ret |-> Bool(TRUE)]
    [] b.tag = "Bytes" -> [body |-> [b EXCEPT !.pos = 0], ret |-> Bool(TRUE)]
    [] b.tag = "AsyncRead" -> [body |-> b, ret |-> Bool(b.src = <<>>)]
    [] OTHER -> [body |-> b, ret |-> NoArm]

\* reset that treats Empty like a body that cannot rewind
reset_empty_false(b) ==
  CASE b.tag = "Bytes" -> [body |-> [b EXCEPT !.pos = 0], ret |-> Bool(TRUE)]
    [] b.tag \in {"Empty", "AsyncRead"} -> [body |-> b, ret |-> Bool(FALSE)]
    [] OTHER -> [body |-> b, ret |-> NoArm]

\* Body::reset: the body afterwards and the value returned; the match has
\* arms for Empty, Bytes and AsyncRead only
reset(b) ==
  CASE b.tag = "Empty" -> [body |-> b, ret |-> Bool(TRUE)]
    [] b.tag = "Bytes" -> [body |-> [b EXCEPT !.pos = 0], ret |-> Bool(TRUE)]
    [] b.tag = "AsyncRead" -> [body |-> b, ret |-> Bool(FALSE)]
    [] OTHER -> [body |-> b, ret |-> NoArm]

\* AsyncRead for Cursor: copy min(n, remaining) bytes from pos and advance
cursor_poll_read(b, n) ==
  LET start == Min(b.pos, Len(b.data))
      k == Min(n, Len(b.data) - start)
  IN [body |-> [b EXCEPT !.pos = b.pos + k],
      ret |-> ReadyOk(SubSeq(b.data, start + 1, start + k)),
      polls |-> <<>>]

\* poll_read that reports a failure of the source as end of data
poll_read_swallow(b, n) ==
  CASE b.tag = "Empty" -> [body |-> b, ret |-> ReadyOk(<<>>), polls |-> <<>>]
    [] b.tag = "Bytes" -> cursor_poll_read(b, n)
    [] b.tag = "AsyncRead" ->
         LET r == SourcePoll(b.src, n) IN
         [body |-> [b EXCEPT !.src = r.src],
          ret |-> IF r.ret.t = "Err" THEN ReadyOk(<<>>) ELSE r.ret,
          polls |-> <<[n |-> n, ret |-> r.ret]>>]
    [] OTHER -> [body |-> b, ret |-> NoArm, polls |-> <<>>]

\* poll_read that gives up the source after a failure: every later poll
\* reports the end of data
poll_read_fuse(b, n) ==
  CASE b.tag = "Empty" -> [body |-> b, ret |-> ReadyOk(<<>>), polls |-> <<>>]
    [] b.tag = "Bytes" -> cursor_poll_read(b, n)
    [] b.tag = "AsyncRead" ->
         LET r == SourcePoll(b.src, n) IN
         [body |-> [b EXCEPT !.src = IF r.ret.t = "Err" THEN <<>> ELSE r.src],
          ret |-> r.ret,
          polls |-> <<[n |-> n, ret |-> r.ret]>>]
    [] OTHER -> [body |-> b, ret |-> NoArm, polls |-> <<>>]

\* <Body as AsyncRead>::poll_read: the body afterwards, the value returned
\* and the polls made of the wrapped source; the match has arms for Empty,
\* Bytes and AsyncRead only
poll_read(b, n) ==
  CASE b.tag = "Empty" -> [body |-> b, ret |-> ReadyOk(<<>>), polls |-> <<>>]
    [] b.tag = "Bytes" -> cursor_poll_read(b, n)
    [] b.tag = "AsyncRead" ->
         LET r == SourcePoll(b.src, n) IN
         [body |-> [b EXCEPT !.src = r.src],
          ret |-> r.ret,
          polls |-> <<[n |-> n, ret |-> r.ret]>>]
    [] OTHER -> [body |-> b, ret |-> NoArm, polls |-> <<>>]

\* a blocking read that reports WouldBlock instead of waiting for the source
read_no_wait(b, n) ==
  LET r == poll_read(b, n) IN
  IF r.ret = Pending THEN [r EXCEPT !.ret = ReadyErr("WouldBlock")] ELSE r

\* a blocking read that polls again after a failure instead of returning it
read_retry_failed(b, n) ==
  LET r == poll_read(b, n) IN
  IF r.ret.t = "Err" THEN [r EXCEPT !.ret = Pending] ELSE r

\* a blocking read that reports an interrupted read as the end of data
read_interrupt_eof(b, n) ==
  LET r == poll_read(b, n) IN
  IF r.ret = ReadyErr("Interrupted") THEN [r EXCEPT !.ret = ReadyOk(<<>>)]
  ELSE r

\* <Body as Read>::read: the future AsyncReadExt::read(self, buf), which
\* polls poll_read once each time it is polled
read(b, n) == poll_read(b, n)

\* fmt::Debug for Body
debug(b) ==
  LET l == len(b) IN
  CASE l.t = "Some" -> [t |-> "Str", prefix |-> "Body(", len |-> l.v,
                        suffix |-> ")"]
    [] l.t = "None" -> [t |-> "Str", prefix |-> "Body(?)"]
    [] OTHER -> NoArm

\* a rendering that reads the first byte of the body to show it
fmt_content(b) ==
  LET r == poll_read(b, 1) IN
  [body |-> r.body, ret |-> debug(b), polls |-> r.polls]

\* fmt::Debug::fmt(&self, f): the body afterwards, the text written and the
\* polls made of the wrapped source
fmt(b) == [body |-> b, ret |-> debug(b), polls |-> <<>>]

(* ------------------------------ state --------------------------------- *)

VARIABLES
  body,        \* the Body value
  origin,      \* how it was constructed: [ctor, input, len]
  op,          \* the blocking call in progress, or Idle
  last,        \* the last completed call: its name, buffer size, returned
               \* value, the body before and after, and the polls of the
               \* wrapped source made during the call
  log,         \* the completed calls since construction while they are only
               \* text() and reset() and at most MaxLog; Overflow afterwards
  delivered,   \* bytes delivered by reads since construction or the last reset
  sawEof,      \* a read with a non-empty buffer returned 0 bytes since then
  prevPass,    \* what the pass before the last reset delivered, if it ran to
               \* the end of data; NoPass otherwise
  everFailed   \* some read has failed

vars == <<body, origin, op, last, log, delivered, sawEof, prevPass, everFailed>>

Idle == [name |-> "idle"]
NoCall == [op |-> "none"]
NoPass == None
NoLog == [over |-> FALSE, calls |-> <<>>]
Overflow == [over |-> TRUE, calls |-> <<>>]

\* the polls of the wrapped source kept for a call in progress: all of them
\* for a source that finishes (an event takes at most two polls), the most
\* recent ones for a source that never does
PollCap == 2 * MaxScript + 2
KeepRecent(polls) == IF Len(polls) > PollCap THEN Tail(polls) ELSE polls

Call(name, n, ret, pre, post, polls) ==
  [op |-> name, n |-> n, ret |-> ret, pre |-> pre, post |-> post,
   polls |-> polls]

Logged(name, ret) ==
  IF log.over \/ Len(log.calls) >= MaxLog THEN Overflow
  ELSE [log EXCEPT !.calls = Append(log.calls,
                                    [op |-> name, ret |-> ret])]

\* a completed text() call with what ended it: the end of data with valid
\* text ("ok"), invalid UTF-8 ("decode"), a failed read ("read"), or a match
\* without an arm ("none")
LoggedText(ret, cause) ==
  IF log.over \/ Len(log.calls) >= MaxLog THEN Overflow
  ELSE [log EXCEPT !.calls = Append(log.calls,
                                    [op |-> "text", ret |-> ret,
                                     cause |-> cause])]

\* the contents handed to the constructors
Contents == SeqsUpTo(ByteVals, MaxLen)
Strings == {s \in SeqsUpTo(CharVals, MaxLen) : Len(Utf8Encode(s)) <= MaxLen}
LenHints == {42}

Origin(ctor, input, l) == [ctor |-> ctor, input |-> input, len |-> l]

Constructions ==
  {[body |-> empty, origin |-> Origin("empty", <<>>, None)],
   [body |-> default, origin |-> Origin("default", <<>>, None)],
   [body |-> from_unit, origin |-> Origin("unit", <<>>, None)],
   [body |-> from_option(None), origin |-> Origin("none", <<>>, None)]}
  \cup {[body |-> bytes(c), origin |-> Origin("bytes", c, None)]
          : c \in Contents}
  \cup {[body |-> from_slice(c), origin |-> Origin("slice", c, None)]
          : c \in Contents}
  \cup {[body |-> from_string(s), origin |-> Origin("string", s, None)]
          : s \in Strings}
  \cup {[body |-> from_str(s), origin |-> Origin("str", s, None)]
          : s \in Strings}
  \cup {[body |-> reader(r), origin |-> Origin("reader", r, None)]
          : r \in Scripts}
  \cup {[body |-> reader_sized(x[1], x[2]),
         origin |-> Origin("reader_sized", x[1], Some(x[2]))]
          : x \in Scripts \X LenHints}

Init ==
  /\ \E c \in Constructions : body = c.body /\ origin = c.origin
  /\ op = Idle
  /\ last = NoCall
  /\ log = NoLog
  /\ delivered = <<>>
  /\ sawEof = FALSE
  /\ prevPass = NoPass
  /\ everFailed = FALSE

\* the bookkeeping of one poll of the body's read with a buffer of n bytes
Observe(r, n) ==
  /\ delivered' = IF r.t = "Ready" THEN delivered \o r.bytes ELSE delivered
  /\ sawEof' = (sawEof \/ (r.t = "Ready" /\ r.bytes = <<>> /\ n > 0))
  /\ everFailed' = (everFailed \/ r.t = "Err")
  /\ UNCHANGED prevPass

(* ------------------------------ actions ------------------------------- *)

\* a scheduler polls the asynchronous read once with a buffer of n bytes
PollRead(n) ==
  /\ op = Idle
  /\ LET r == poll_read(body, n) IN
     /\ body' = r.body
     /\ last' = Call("poll", n, r.ret, body, r.body, r.polls)
     /\ log' = Overflow
     /\ Observe(r.ret, n)
  /\ UNCHANGED <<origin, op>>

\* a blocking read with a buffer of n bytes is called
ReadBegin(n) ==
  /\ op = Idle
  /\ op' = [name |-> "read", n |-> n, pre |-> body, polls |-> <<>>]
  /\ UNCHANGED <<body, origin, last, log, delivered, sawEof, prevPass,
                 everFailed>>

\* Join::join polls the read future once; the call returns on the first
\* outcome that is not Pending
JoinStep ==
  /\ op.name = "read"
  /\ LET r == read(body, op.n) IN
     /\ body' = r.body
     /\ Observe(r.ret, op.n)
     /\ IF r.ret = Pending
        THEN /\ op' = [op EXCEPT !.polls = KeepRecent(op.polls \o r.polls)]
             /\ UNCHANGED <<last, log>>
        ELSE /\ op' = Idle
             /\ last' = Call("read", op.n, r.ret, op.pre, r.body,
                             op.polls \o r.polls)
             /\ log' = Overflow
  /\ UNCHANGED origin

\* text() is called; read_to_string reads with buffers of n bytes
TextBegin(n) ==
  /\ op = Idle
  /\ n > 0
  /\ op' = [name |-> "text", n |-> n, pre |-> body, acc |-> <<>>,
            polls |-> <<>>]
  /\ UNCHANGED <<body, origin, last, log, delivered, sawEof, prevPass,
                 everFailed>>

\* text() that reports invalid UTF-8 with the kind of a general failure
text_result_other(acc) ==
  LET d == Utf8Decode(acc) IN
  IF d.ok THEN TextOk(d.s) ELSE TextErr("Other")

\* the value text() returns once read_to_string has read acc to the end
text_result(acc) ==
  LET d == Utf8Decode(acc) IN
  IF d.ok THEN TextOk(d.s) ELSE TextErr("InvalidData")

\* one poll of the read in progress in read_to_string: a Pending poll is
\* polled again by join, bytes are appended, an Interrupted failure is
\* retried, any other failure is returned, and 0 bytes ends the loop
TextStep ==
  /\ op.name = "text"
  /\ LET r == read(body, op.n) IN
     /\ body' = r.body
     /\ Observe(r.ret, op.n)
     /\ CASE r.ret.t = "Pending" ->
               /\ op' = [op EXCEPT !.polls = KeepRecent(op.polls \o r.polls)]
               /\ UNCHANGED <<last, log>>
          [] r.ret.t = "Ready" /\ r.ret.bytes # <<>> ->
               /\ op' = [op EXCEPT !.acc = op.acc \o r.ret.bytes,
                                   !.polls = KeepRecent(op.polls \o r.polls)]
               /\ UNCHANGED <<last, log>>
          [] r.ret.t = "Ready" /\ r.ret.bytes = <<>> ->
               /\ op' = Idle
               /\ last' = Call("text", op.n, text_result(op.acc), op.pre, r.body,
                               op.polls \o r.polls)
               /\ log' = LoggedText(text_result(op.acc),
                                    IF Utf8Decode(op.acc).ok THEN "ok"
                                    ELSE "decode")
          [] r.ret.t = "Err" /\ r.ret.kind = "Interrupted" ->
               /\ op' = [op EXCEPT !.polls = KeepRecent(op.polls \o r.polls)]
               /\ UNCHANGED <<last, log>>
          [] r.ret.t = "Err" /\ r.ret.kind # "Interrupted" ->
               /\ op' = Idle
               /\ last' = Call("text", op.n, TextErr(r.ret.kind), op.pre, r.body,
                               op.polls \o r.polls)
               /\ log' = LoggedText(TextErr(r.ret.kind), "read")
          [] r.ret.t = "NoArm" ->
               /\ op' = Idle
               /\ last' = Call("text", op.n, NoArm, op.pre, r.body,
                               op.polls \o r.polls)
               /\ log' = LoggedText(NoArm, "none")
  /\ UNCHANGED origin

Reset ==
  /\ op = Idle
  /\ LET r == reset(body) IN
     /\ body' = r.body
     /\ last' = Call("reset", 0, r.ret, body, r.body, <<>>)
     /\ log' = Logged("reset", r.ret)
     /\ IF r.ret = Bool(TRUE)
        THEN /\ prevPass' = IF sawEof THEN Some(delivered) ELSE NoPass
             /\ delivered' = <<>>
             /\ sawEof' = FALSE
        ELSE UNCHANGED <<prevPass, delivered, sawEof>>
  /\ UNCHANGED <<origin, op, everFailed>>

LenCall ==
  /\ op = Idle
  /\ last' = Call("len", 0, len(body), body, body, <<>>)
  /\ UNCHANGED <<body, origin, op, log, delivered, sawEof, prevPass,
                 everFailed>>

IsEmptyCall ==
  /\ op = Idle
  /\ last' = Call("is_empty", 0, Bool(is_empty(body)), body, body, <<>>)
  /\ UNCHANGED <<body, origin, op, log, delivered, sawEof, prevPass,
                 everFailed>>

DebugCall ==
  /\ op = Idle
  /\ LET f == fmt(body) IN
     /\ body' = f.body
     /\ last' = Call("debug", 0, f.ret, body, f.body, f.polls)
  /\ UNCHANGED <<origin, op, log, delivered, sawEof, prevPass, everFailed>>

Next ==
  \/ \E n \in 0..MaxBuf : PollRead(n)
  \/ \E n \in 0..MaxBuf : ReadBegin(n)
  \/ JoinStep
  \/ \E n \in 1..MaxBuf : TextBegin(n)
  \/ TextStep
  \/ Reset
  \/ LenCall
  \/ IsEmptyCall
  \/ DebugCall

Spec == Init /\ [][Next]_vars

\* text() and reset() on bodies whose source may never finish.  A blocking
\* call in progress keeps running: join polls the future again and
\* read_to_string issues the next read.
LiveConstructions ==
  {[body |-> empty, origin |-> Origin("empty", <<>>, None)]}
  \cup {[body |-> bytes(c), origin |-> Origin("bytes", c, None)]
          : c \in Contents}
  \cup {[body |-> from_slice(c), origin |-> Origin("slice", c, None)]
          : c \in Contents}
  \cup {[body |-> reader(r), origin |-> Origin("reader", r, None)]
          : r \in LiveScripts}

InitLive ==
  /\ \E c \in LiveConstructions : body = c.body /\ origin = c.origin
  /\ op = Idle
  /\ last = NoCall
  /\ log = NoLog
  /\ delivered = <<>>
  /\ sawEof = FALSE
  /\ prevPass = NoPass
  /\ everFailed = FALSE

NextLive ==
  \/ \E n \in 1..MaxBuf : TextBegin(n)
  \/ TextStep
  \/ Reset

FairSpec == InitLive /\ [][NextLive]_vars /\ WF_vars(TextStep)

(* ------------------------------ claims -------------------------------- *)

InMemory == {"Empty", "Borrowed", "Bytes"}
EmptyCtors == {"empty", "default", "unit", "none"}

\* the bytes handed to the constructor of an in-memory body
ContentBytes ==
  IF origin.ctor \in {"string", "str"} THEN Utf8Encode(origin.input)
  ELSE origin.input

\* the consuming calls logged so far are exactly the calls named by ops
LogIs(ops) ==
  /\ ~log.over
  /\ Len(log.calls) = Len(ops)
  /\ \A i \in 1..Len(ops) : log.calls[i].op = ops[i]

\* the first Len(ops) logged calls are the calls named by ops
LogStarts(ops) ==
  /\ ~log.over
  /\ Len(log.calls) >= Len(ops)
  /\ \A i \in 1..Len(ops) : log.calls[i].op = ops[i]

\* C1: for a Borrowed or Owned body, the reads of a pass return bytes or the
\* end of data; once a read has returned 0 bytes, reset() returns true; and
\* the reads after the reset deliver, from the first byte, the same bytes as
\* the pass before it.
C1_RoundTrip ==
  body.tag \in {"Borrowed", "Bytes"} =>
    /\ (last.op \in {"read", "poll"} => last.ret.t = "Ready")
    /\ (last.op = "reset" /\ (sawEof \/ prevPass # None)
          => last.ret = Bool(TRUE))
    /\ (prevPass # None =>
          /\ IsPrefix(delivered, prevPass.v)
          /\ (sawEof => delivered = prevPass.v))

\* the round trip of C1 on the Owned representation alone
OwnedRoundTrip ==
  body.tag = "Bytes" =>
    /\ (last.op \in {"read", "poll"} => last.ret.t = "Ready")
    /\ (last.op = "reset" => last.ret = Bool(TRUE))
    /\ IsPrefix(delivered, body.data)
    /\ (sawEof => delivered = body.data)
    /\ (prevPass # None => prevPass.v = body.data)

OwnedRoundTripReached ==
  /\ body.tag = "Bytes"
  /\ Len(body.data) = MaxLen
  /\ prevPass = Some(body.data)
  /\ sawEof
  /\ delivered = body.data

\* C2: for an Owned body built from a valid UTF-8 string s, the first text()
\* returns s, a second text() with no reset in between returns the empty
\* string, reset() then returns true, and the next text() returns s again.
C2_TextScenario ==
  \/ origin.ctor = "string"
  \/ origin.ctor = "bytes" /\ Utf8Decode(origin.input).ok
  =>
    LET c == log.calls
        s == IF origin.ctor = "string" THEN origin.input
             ELSE Utf8Decode(origin.input).s
    IN /\ body.tag = "Bytes"
       /\ (LogStarts(<<"text">>) => c[1].ret = TextOk(s))
       /\ (LogStarts(<<"text", "text">>) => c[2].ret = TextOk(<<>>))
       /\ (LogStarts(<<"text", "text", "reset">>) => c[3].ret = Bool(TRUE))
       /\ (LogStarts(<<"text", "text", "reset", "text">>)
             => c[4].ret = TextOk(s))

C2_Witness ==
  /\ origin.ctor = "string"
  /\ origin.input = <<233>>
  /\ LogIs(<<"text", "text", "reset", "text">>)

\* C3: for a body built from in-memory data (Empty, Borrowed, Owned), len()
\* returns Some(the byte count of the data) in every reachable state: before
\* any read, after partial reads, after the end of data and after a reset.
C3_LenExact ==
  last.op = "len" /\ body.tag \in InMemory =>
    last.ret = Some(Len(ContentBytes))

\* C4: for an Asynchronous body, len() is in every reachable state the length
\* given at construction: Some(n) for reader_sized(source, n), None for
\* reader(source).
C4_AsyncLenFixed ==
  origin.ctor \in {"reader", "reader_sized"} =>
    /\ body.tag = "AsyncRead"
    /\ len(body) = origin.len
    /\ (last.op = "len" => last.ret = origin.len)

C4_Witness ==
  /\ origin.ctor = "reader_sized"
  /\ last.op = "len"
  /\ last.ret = Some(42)
  /\ everFailed
  /\ sawEof
  /\ delivered # <<>>
  /\ body.src = <<>>

\* C5: for an Asynchronous body, reset() returns false in every reachable
\* state.
C5_AsyncResetFalse ==
  body.tag = "AsyncRead" =>
    /\ reset(body).ret = Bool(FALSE)
    /\ (last.op = "reset" => last.ret = Bool(FALSE))

C5_Witness ==
  /\ body.tag = "AsyncRead"
  /\ last.op = "reset"
  /\ everFailed
  /\ sawEof
  /\ delivered # <<>>
  /\ body.src = <<>>

\* C6: for an Empty body (from empty(), Default, () or None), after any
\* sequence of calls, is_empty() is true and reset() returns true.
C6_EmptyAlways ==
  origin.ctor \in EmptyCtors =>
    /\ body.tag = "Empty"
    /\ is_empty(body)
    /\ reset(body).ret = Bool(TRUE)
    /\ (last.op = "is_empty" => last.ret = Bool(TRUE))
    /\ (last.op = "reset" => last.ret = Bool(TRUE))

C6_Witness ==
  /\ origin.ctor = "none"
  /\ last.op = "is_empty"
  /\ last.ret = Bool(TRUE)
  /\ sawEof
  /\ LogStarts(<<"text", "reset", "text">>)

\* C7: for a Borrowed body over an n-byte slice, blocking reads with a
\* non-empty buffer deliver the n bytes in slice order, and every read after
\* them returns 0 bytes and never an error.
C7_BorrowedDrain ==
  body.tag = "Borrowed" =>
    /\ (last.op = "read" /\ last.n > 0 =>
          /\ last.ret.t = "Ready"
          /\ last.ret.bytes =
               SubSeq(body.data, last.pre.pos + 1,
                      Min(Len(body.data), last.pre.pos + last.n)))
    /\ IsPrefix(delivered, body.data)
    /\ (sawEof => delivered = body.data)

\* C8: a poll of the asynchronous read on an Empty, Borrowed or Owned body
\* completes on the first poll (Empty with 0 bytes); a poll on an
\* Asynchronous body returns Pending only when the poll of the wrapped source
\* made by that call returned Pending.
C8_PendingOnlyFromSource ==
  last.op = "poll" =>
    /\ (last.pre.tag \in InMemory => last.ret.t = "Ready")
    /\ (last.pre.tag = "Empty" => last.ret = ReadyOk(<<>>))
    /\ (last.pre.tag = "AsyncRead" /\ last.ret = Pending =>
          \E i \in 1..Len(last.polls) : last.polls[i].ret = Pending)

\* C9: for an Asynchronous body, each poll of the body's read makes exactly
\* one poll of the wrapped source with the same buffer and returns that
\* poll's outcome unchanged.
C9_ForwardVerbatim ==
  last.op = "poll" /\ last.pre.tag = "AsyncRead" =>
    LET s == SourcePoll(last.pre.src, last.n) IN
    /\ Len(last.polls) = 1
    /\ last.polls[1].n = last.n
    /\ last.polls[1].ret = last.ret
    /\ last.ret = s.ret
    /\ last.post = [last.pre EXCEPT !.src = s.src]

C9_Witness ==
  /\ last.op = "poll"
  /\ last.pre.tag = "AsyncRead"
  /\ last.ret.t = "Err"
  /\ delivered # <<>>

\* polling the asynchronous read with a buffer of n bytes until its first
\* outcome that is not Pending
RECURSIVE PollUntilReady(_, _)
PollUntilReady(b, n) ==
  LET r == poll_read(b, n) IN
  IF r.ret = Pending THEN PollUntilReady(r.body, n)
  ELSE [body |-> r.body, ret |-> r.ret]

\* C10: a blocking read with a buffer of n bytes returns the same outcome and
\* leaves the body in the same state as polling the asynchronous read with
\* that buffer until its first outcome that is not Pending.
C10_BlockingIsPolling ==
  last.op = "read" =>
    LET e == PollUntilReady(last.pre, last.n) IN
    /\ last.ret = e.ret
    /\ last.post = e.body

C10_Witness ==
  /\ last.op = "read"
  /\ last.pre.tag = "AsyncRead"
  /\ last.pre.src # <<>>
  /\ Head(last.pre.src).e = "Pending"
  /\ last.ret.t = "Ready"
  /\ last.ret.bytes # <<>>

\* the outcome of the i-th poll of the wrapped source made during a call
IsFailure(p) == p.ret.t = "Err"
IsFatal(p) == p.ret.t = "Err" /\ p.ret.kind # "Interrupted"

TextCalls(cause) ==
  {i \in 1..Len(log.calls) :
     log.calls[i].op = "text" /\ log.calls[i].cause = cause}

\* C12 as stated: the error text() returns for invalid UTF-8 differs from
\* every error text() returns because a read failed.
C12_DecodeErrorDistinct ==
  \A i \in TextCalls("decode") : \A j \in TextCalls("read") :
    log.calls[i].ret # log.calls[j].ret

\* C12 amended: the error text() returns for invalid UTF-8 has kind
\* InvalidData, a failed read is returned with the kind the source gave it,
\* and so the two differ whenever the source's failure is not of kind
\* InvalidData.
C12_DecodeErrorIsInvalidData ==
  /\ \A i \in TextCalls("decode") : log.calls[i].ret = TextErr("InvalidData")
  /\ \A i \in TextCalls("decode") : \A j \in TextCalls("read") :
       log.calls[j].ret.kind # "InvalidData"
         => log.calls[i].ret # log.calls[j].ret

C12_Witness ==
  /\ LogIs(<<"text", "text">>)
  /\ log.calls[1].cause = "read"
  /\ log.calls[1].ret = TextErr("Other")
  /\ log.calls[2].cause = "decode"

\* C13: a string slice, a byte slice or an owned string converts into the
\* Owned representation holding a copy of the bytes, an absent value (None,
\* (), Default) into Empty, and in each case len() is the byte count of the
\* input.
C13_ConversionsOwned ==
  /\ origin.ctor \in {"str", "slice", "string"} =>
       /\ body.tag = "Bytes"
       /\ body.data = ContentBytes
       /\ (last.op = "len" => last.ret = Some(Len(ContentBytes)))
  /\ origin.ctor \in {"none", "unit", "default"} =>
       /\ body.tag = "Empty"
       /\ (last.op = "len" => last.ret = Some(0))

\* C14: for a Borrowed or Owned body the position stays within 0..length, a
\* read with a buffer of n bytes copies min(n, length - p) bytes from p and
\* advances p by that amount, and p decreases only through reset(), which
\* sets it to 0.
C14_Position ==
  body.tag \in {"Borrowed", "Bytes"} =>
    /\ body.pos \in 0..Len(body.data)
    /\ (last.op \in {"poll", "read"} =>
          LET p == last.pre.pos
              k == Min(last.n, Len(body.data) - p)
          IN /\ last.ret = ReadyOk(SubSeq(body.data, p + 1, p + k))
             /\ last.post.pos = p + k)
    /\ (last.op = "reset" => last.post.pos = 0)
    /\ (last.op \in {"poll", "read", "text", "len", "is_empty", "debug"} =>
          last.post.pos >= last.pre.pos)

\* the position rule of C14 on the Owned representation alone
OwnedPosition ==
  body.tag = "Bytes" =>
    /\ body.pos \in 0..Len(body.data)
    /\ (last.op \in {"poll", "read"} =>
          LET p == last.pre.pos
              k == Min(last.n, Len(body.data) - p)
          IN /\ last.ret = ReadyOk(SubSeq(body.data, p + 1, p + k))
             /\ last.post.pos = p + k)
    /\ (last.op = "reset" => last.post.pos = 0)
    /\ (last.op \in {"poll", "read", "text", "len", "is_empty", "debug"} =>
          last.post.pos >= last.pre.pos)

\* C15: after text() has drained an Asynchronous body to the end of data,
\* every later text() call returns the empty string.
C15_DrainedStaysEmpty ==
  body.tag = "AsyncRead" =>
    \A i \in TextCalls("ok") \cup TextCalls("decode") :
      \A j \in (i + 1)..Len(log.calls) :
        log.calls[j].op = "text" => log.calls[j].ret = TextOk(<<>>)

QueryOps == {"len", "is_empty", "debug"}

\* C16: the Debug rendering, len() and is_empty() leave the body as it was
\* and make no poll of the wrapped source; the rendering shows the length
\* when len() is Some and the placeholder when it is None.
C16_QueriesDoNotConsume ==
  last.op \in QueryOps =>
    /\ last.post = last.pre
    /\ last.polls = <<>>
    /\ (last.op = "debug" /\ len(last.pre).t = "Some" =>
          last.ret = [t |-> "Str", prefix |-> "Body(",
                      len |-> len(last.pre).v, suffix |-> ")"])
    /\ (last.op = "debug" /\ len(last.pre).t = "None" =>
          last.ret = [t |-> "Str", prefix |-> "Body(?)"])

C16_Witness ==
  /\ last.op = "debug"
  /\ body.tag = "AsyncRead"
  /\ last.ret = [t |-> "Str", prefix |-> "Body(?)"]
  /\ delivered # <<>>
  /\ body.src # <<>>
  /\ Head(body.src).e = "Chunk"

\* C17: a read failure on an Asynchronous body leaves no error state: the
\* failed poll consumes one outcome of the source and nothing else, len(),
\* is_empty() and reset() answer as before it, and a poll made after a
\* failure returns what the source returns for that poll.
C17_FailureIsScoped ==
  /\ last.op \in {"poll", "read"} /\ last.pre.tag = "AsyncRead"
       /\ last.ret.t = "Err" =>
       /\ len(last.post) = len(last.pre)
       /\ is_empty(last.post) = is_empty(last.pre)
       /\ reset(last.post).ret = reset(last.pre).ret
       /\ \A n \in 0..MaxBuf :
            /\ poll_read(last.post, n).ret = SourcePoll(last.post.src, n).ret
            /\ Len(poll_read(last.post, n).polls) = 1
  /\ last.op = "poll" /\ last.pre.tag = "AsyncRead" /\ last.ret.t = "Err" =>
       last.post.src = SourcePoll(last.pre.src, last.n).src
  /\ op = Idle /\ last.op = "poll" /\ last.pre.tag = "AsyncRead"
       /\ everFailed =>
       /\ last.ret = SourcePoll(last.pre.src, last.n).ret
       /\ last.post.src = SourcePoll(last.pre.src, last.n).src

C17_Witness ==
  /\ op = Idle
  /\ last.op = "poll"
  /\ last.pre.tag = "AsyncRead"
  /\ everFailed
  /\ last.ret.t = "Ready"
  /\ last.ret.bytes # <<>>

\* C18: on a Borrowed or Owned body whose position is p, text() returns the
\* decoding of the bytes from p to the end and leaves the position at the
\* end.
C18_TextDrainsRemaining ==
  last.op = "text" /\ last.pre.tag \in {"Borrowed", "Bytes"} =>
    LET rest == SubSeq(last.pre.data, last.pre.pos + 1, Len(last.pre.data))
    IN /\ last.ret = (IF Utf8Decode(rest).ok THEN TextOk(Utf8Decode(rest).s)
                      ELSE TextErr("InvalidData"))
       /\ last.post.pos = Len(last.pre.data)

\* the rule of C18 on the Owned representation alone
OwnedTextDrainsRemaining ==
  last.op = "text" /\ last.pre.tag = "Bytes" =>
    LET rest == SubSeq(last.pre.data, last.pre.pos + 1, Len(last.pre.data))
    IN /\ last.ret = (IF Utf8Decode(rest).ok THEN TextOk(Utf8Decode(rest).s)
                      ELSE TextErr("InvalidData"))
       /\ last.post.pos = Len(last.pre.data)

\* C20: on a Borrowed or Owned body whose bytes are not valid UTF-8, the
\* first text() fails with the decode error and leaves the position at the
\* end, a second text() without reset returns the empty string, and after
\* reset() text() fails with the decode error again.
C20_DecodeFailureConsumes ==
  body.tag \in {"Borrowed", "Bytes"} /\ ~Utf8Decode(body.data).ok =>
    LET c == log.calls IN
    /\ (LogStarts(<<"text">>) => c[1].ret = TextErr("InvalidData"))
    /\ (LogIs(<<"text">>) => body.pos = Len(body.data))
    /\ (LogStarts(<<"text", "text">>) => c[2].ret = TextOk(<<>>))
    /\ (LogStarts(<<"text", "text", "reset", "text">>) =>
          c[4].ret = TextErr("InvalidData"))

\* the rule of C20 on the Owned representation alone
OwnedDecodeFailureConsumes ==
  body.tag = "Bytes" /\ ~Utf8Decode(body.data).ok =>
    LET c == log.calls IN
    /\ (LogStarts(<<"text">>) => c[1].ret = TextErr("InvalidData"))
    /\ (LogIs(<<"text">>) => body.pos = Len(body.data))
    /\ (LogStarts(<<"text", "text">>) => c[2].ret = TextOk(<<>>))
    /\ (LogStarts(<<"text", "text", "reset", "text">>) =>
          c[4].ret = TextErr("InvalidData"))

\* the wrapped source has no event that repeats for ever / none that answers
\* Pending for ever
Finishes(b) == \A i \in 1..Len(b.src) : b.src[i].e # "Forever"
StopsPending(b) ==
  \A i \in 1..Len(b.src) :
    b.src[i].e = "Forever" => b.src[i].what # "Pending"

\* text() on an Asynchronous body returned only after the end of data or a
\* failure (fatalOnly: a failure of a kind other than Interrupted)
ReturnedOnEndOrFailure(fatalOnly) ==
  last.op = "text" /\ last.pre.tag = "AsyncRead" =>
    /\ last.polls # <<>>
    /\ LET p == last.polls[Len(last.polls)] IN
       \/ p.ret = ReadyOk(<<>>)
       \/ IF fatalOnly THEN IsFatal(p) ELSE IsFailure(p)

====
